---- MODULE Spec2Model ----
(***************************************************************************)
(* A model of certbot_apache/_internal/apache_util.py:                     *)
(*   safe_copy / _file_hash          (integrity-verified copy, 3 attempts) *)
(*   _split_aug_path                 (Augeas path -> file path, remainder) *)
(*   parse_define_file               (-D NAME[=VALUE] tokens)              *)
(*   parse_defines, parse_from_subprocess, _get_runtime_cfg                *)
(* Strings whose characters matter are sequences of one-character strings. *)
(***************************************************************************)
EXTENDS Integers, Sequences, FiniteSets, TLC

VARIABLES
    \* ---- safe_copy ----
    source,        \* caller -> content of that caller's source file
    target,        \* content of the (shared) target file
    pc,            \* caller -> position inside safe_copy
    attempt,       \* caller -> loop index of "for _ in range(3)"
    source_hash,   \* caller -> local variable source_hash
    target_hash,   \* caller -> local variable target_hash
    result,        \* caller -> how the call ended
    outcomes,      \* caller -> outcome of each finished cycle, in order
    copies,        \* caller -> number of shutil.copy2 calls made
    sleeps,        \* caller -> number of time.sleep calls made
    hashes,        \* caller -> number of _file_hash calls made
    target_at_return,  \* caller -> content of the target when the call returned
    \* ---- _split_aug_path ----
    fs,            \* the disk: node -> "none" | "file" | "dir"
    cwd,           \* the working directory (a directory node of fs)
    vhost_path,    \* argument of _split_aug_path
    file_path,     \* local variable file_path
    internal_path, \* local variable internal_path (a list of components)
    split_pc,      \* position inside _split_aug_path
    split_result,  \* the returned pair
    \* ---- parse_define_file ----
    define_value,  \* what util.get_var_from_file returned
    define_pc,     \* position of the call
    return_vars,   \* the returned dict
    \* ---- parse_defines / parse_from_subprocess / _get_runtime_cfg ----
    proc,          \* what the child process did
    run_pc,        \* position of the call
    run_out        \* how the call ended: matches, variables, raised, log

copyVars == <<source, target, pc, attempt, source_hash, target_hash, result,
              outcomes, copies, sleeps, hashes, target_at_return>>

splitVars == <<fs, cwd, vhost_path, file_path, internal_path, split_pc,
               split_result>>

defineVars == <<define_value, define_pc, return_vars>>

runVars == <<proc, run_pc, run_out>>

vars == <<copyVars, splitVars, defineVars, runVars>>

(***************************************************************************)
(* Strings                                                                 *)
(***************************************************************************)

Max(S) == CHOOSE x \in S : \A y \in S : y <= x

Min(S) == CHOOSE x \in S : \A y \in S : x <= y

Positions(s, ch) == {i \in 1..Len(s) : s[i] = ch}

\* All strings over `chars` of length at most n.
StringsUpTo(chars, n) == UNION {[1..k -> chars] : k \in 0..n}

\* A partition around the FIRST occurrence where rpartition takes the last.
RPartitionAtFirst(s, sep) ==
    IF Positions(s, sep) = {}
      THEN <<<<>>, <<>>, s>>
      ELSE LET k == Min(Positions(s, sep))
           IN  <<SubSeq(s, 1, k - 1), <<sep>>, SubSeq(s, k + 1, Len(s))>>

\* str.rpartition(sep) for a one-character sep: (head, sep, tail) around the
\* LAST occurrence, ("", "", s) when there is none.
RPartition(s, sep) ==
    IF Positions(s, sep) = {}
      THEN <<<<>>, <<>>, s>>
      ELSE LET k == Max(Positions(s, sep))
           IN  <<SubSeq(s, 1, k - 1), <<sep>>, SubSeq(s, k + 1, Len(s))>>

\* str.partition(sep): around the FIRST occurrence, (s, "", "") when none.
Partition(s, sep) ==
    IF Positions(s, sep) = {}
      THEN <<s, <<>>, <<>>>>
      ELSE LET k == Min(Positions(s, sep))
           IN  <<SubSeq(s, 1, k - 1), <<sep>>, SubSeq(s, k + 1, Len(s))>>

\* str.split(sep) for a one-character sep (empty fields kept).
RECURSIVE SplitOn(_, _)
SplitOn(s, sep) ==
    IF Positions(s, sep) = {}
      THEN <<s>>
      ELSE LET p == Partition(s, sep)
           IN  <<p[1]>> \o SplitOn(p[3], sep)

\* sep.join(parts)
RECURSIVE Join(_, _)
Join(parts, sep) ==
    IF parts = <<>> THEN <<>>
    ELSE IF Len(parts) = 1 THEN parts[1]
    ELSE parts[1] \o <<sep>> \o Join(Tail(parts), sep)

\* reversed(seq)
Reversed(seq) == [i \in 1..Len(seq) |-> seq[Len(seq) + 1 - i]]

\* str.split(): fields between runs of whitespace, no empty field.
WhitespaceSplit(s) == SelectSeq(SplitOn(s, " "), LAMBDA t : t # <<>>)

\* str.startswith(prefix)
StartsWith(s, prefix) ==
    Len(s) >= Len(prefix) /\ SubSeq(s, 1, Len(prefix)) = prefix

\* str.count(ch)
Count(s, ch) == Cardinality(Positions(s, ch))

\* The concatenation of a sequence of strings.
RECURSIVE Flatten(_)
Flatten(ss) == IF ss = <<>> THEN <<>> ELSE ss[1] \o Flatten(Tail(ss))

\* A dict: a function from keys to values.
EmptyDict == [k \in {} |-> <<>>]

\* d[key] = value
DictSet(d, key, value) ==
    [k \in DOMAIN d \cup {key} |-> IF k = key THEN value ELSE d[k]]

(***************************************************************************)
(* safe_copy                                                               *)
(***************************************************************************)

Callers == {1, 2}

otherThanCopy == <<splitVars, defineVars, runVars>>

otherThanSplit == <<copyVars, defineVars, runVars>>

otherThanDefine == <<copyVars, splitVars, runVars>>

otherThanRun == <<copyVars, splitVars, defineVars>>

\* File contents: two valid contents and "X", a torn / partially written file.
Contents == {"A", "B", "X"}

\* A loop that runs once more than range(3).
AttemptsOffByOne == 3 + 1

\* range(3)
Attempts == 3

\* _file_hash: sha-256 of the file's bytes, taken as collision free on Contents.
FileHash(content) == <<"sha256", content>>

NoHash == <<"unset">>

\* The two PluginError messages of safe_copy, under the names the
\* specification gives them.
CopyIOError == "CopyIOError: Could not copy"
IntegrityMismatchError == "IntegrityMismatchError: Safe copy failed"

Active == {c \in Callers : pc[c] # "idle"}

\* End of a cycle that did not return: `continue` / falling off the loop body.
\* The next iteration starts while the range is not exhausted; after the
\* last one the PluginError after the loop is raised.
NextCycle(c, outcome) ==
    /\ outcomes' = [outcomes EXCEPT ![c] = Append(@, outcome)]
    /\ IF attempt[c] + 1 < Attempts
         THEN /\ attempt' = [attempt EXCEPT ![c] = @ + 1]
              /\ pc' = [pc EXCEPT ![c] = "copy"]
              /\ UNCHANGED <<result, target_at_return>>
         ELSE /\ attempt' = attempt
              /\ pc' = [pc EXCEPT ![c] = "done"]
              /\ result' = [result EXCEPT ![c] = IntegrityMismatchError]
              /\ target_at_return' = [target_at_return EXCEPT ![c] = target]

\* A copy step whose IOError is retried like a hashing error.
CopyStepRetrying(c) ==
    /\ pc[c] = "copy"
    /\ UNCHANGED otherThanCopy
    /\ copies' = [copies EXCEPT ![c] = @ + 1]
    /\ \/ /\ \E t \in {target, "X"} : target' = t
          /\ NextCycle(c, "copy-io-error")
       \/ /\ \E t \in {source[c], "X"} : target' = t
          /\ pc' = [pc EXCEPT ![c] = "sleep"]
          /\ UNCHANGED <<attempt, result, outcomes, target_at_return>>
    /\ UNCHANGED <<source, source_hash, target_hash, sleeps, hashes>>

\* A copy step that waits until no other caller is between its copy and its
\* return, as if the target were locked for the length of a cycle.
CopyStepLocked(c) ==
    /\ pc[c] = "copy"
    /\ UNCHANGED otherThanCopy
    /\ \A d \in Callers \ {c} : pc[d] \in {"idle", "copy", "done"}
    /\ copies' = [copies EXCEPT ![c] = @ + 1]
    /\ \/ /\ \E t \in {target, "X"} : target' = t
          /\ pc' = [pc EXCEPT ![c] = "done"]
          /\ result' = [result EXCEPT ![c] = CopyIOError]
          /\ outcomes' = [outcomes EXCEPT ![c] = Append(@, "copy-io-error")]
          /\ target_at_return' = [target_at_return EXCEPT ![c] = target']
       \/ /\ \E t \in {source[c], "X"} : target' = t
          /\ pc' = [pc EXCEPT ![c] = "sleep"]
          /\ UNCHANGED <<result, outcomes, target_at_return>>
    /\ UNCHANGED <<source, attempt, source_hash, target_hash, sleeps, hashes>>

\* shutil.copy2(source, target) and its except IOError clause.
CopyStep(c) ==
    /\ pc[c] = "copy"
    /\ UNCHANGED otherThanCopy
    /\ copies' = [copies EXCEPT ![c] = @ + 1]
    /\ \/ \* IOError: PluginError("Could not copy ...") is raised at once
          /\ \E t \in {target, "X"} : target' = t
          /\ pc' = [pc EXCEPT ![c] = "done"]
          /\ result' = [result EXCEPT ![c] = CopyIOError]
          /\ outcomes' = [outcomes EXCEPT ![c] = Append(@, "copy-io-error")]
          /\ target_at_return' = [target_at_return EXCEPT ![c] = target']
       \/ \* copy2 returns; the bytes on disk may still be torn
          /\ \E t \in {source[c], "X"} : target' = t
          /\ pc' = [pc EXCEPT ![c] = "sleep"]
          /\ UNCHANGED <<result, outcomes, target_at_return>>
    /\ UNCHANGED <<source, attempt, source_hash, target_hash, sleeps, hashes>>

\* time.sleep(1)
SleepStep(c) ==
    /\ pc[c] = "sleep"
    /\ UNCHANGED otherThanCopy
    /\ sleeps' = [sleeps EXCEPT ![c] = @ + 1]
    /\ pc' = [pc EXCEPT ![c] = "hash_source"]
    /\ UNCHANGED <<source, target, attempt, source_hash, target_hash, result,
                   outcomes, copies, hashes, target_at_return>>

\* source_hash = _file_hash(source), inside try / except IOError: continue
HashSource(c) ==
    /\ pc[c] = "hash_source"
    /\ UNCHANGED otherThanCopy
    /\ hashes' = [hashes EXCEPT ![c] = @ + 1]
    /\ \/ /\ source_hash' = [source_hash EXCEPT ![c] = FileHash(source[c])]
          /\ pc' = [pc EXCEPT ![c] = "hash_target"]
          /\ UNCHANGED <<attempt, result, outcomes, target_at_return>>
       \/ /\ NextCycle(c, "hash-io-error")
          /\ UNCHANGED source_hash
    /\ UNCHANGED <<source, target, target_hash, copies, sleeps>>

\* target_hash = _file_hash(target), inside the same try
HashTarget(c) ==
    /\ pc[c] = "hash_target"
    /\ UNCHANGED otherThanCopy
    /\ hashes' = [hashes EXCEPT ![c] = @ + 1]
    /\ \/ /\ target_hash' = [target_hash EXCEPT ![c] = FileHash(target)]
          /\ pc' = [pc EXCEPT ![c] = "compare"]
          /\ UNCHANGED <<attempt, result, outcomes, target_at_return>>
       \/ /\ NextCycle(c, "hash-io-error")
          /\ UNCHANGED target_hash
    /\ UNCHANGED <<source, target, source_hash, copies, sleeps>>

\* A comparison of source_hash with itself.
CompareSelf(c) ==
    /\ pc[c] = "compare"
    /\ UNCHANGED otherThanCopy
    /\ IF source_hash[c] = source_hash[c]
         THEN /\ pc' = [pc EXCEPT ![c] = "done"]
              /\ result' = [result EXCEPT ![c] = "ok"]
              /\ outcomes' = [outcomes EXCEPT ![c] = Append(@, "success")]
              /\ target_at_return' = [target_at_return EXCEPT ![c] = target]
              /\ UNCHANGED attempt
         ELSE NextCycle(c, "hash-mismatch")
    /\ UNCHANGED <<source, target, source_hash, target_hash, copies, sleeps,
                   hashes>>

\* if source_hash == target_hash: return
Compare(c) ==
    /\ pc[c] = "compare"
    /\ UNCHANGED otherThanCopy
    /\ IF source_hash[c] = target_hash[c]
         THEN /\ pc' = [pc EXCEPT ![c] = "done"]
              /\ result' = [result EXCEPT ![c] = "ok"]
              /\ outcomes' = [outcomes EXCEPT ![c] = Append(@, "success")]
              /\ target_at_return' = [target_at_return EXCEPT ![c] = target]
              /\ UNCHANGED attempt
         ELSE NextCycle(c, "hash-mismatch")
    /\ UNCHANGED <<source, target, source_hash, target_hash, copies, sleeps,
                   hashes>>

CopyInitFor(cs) ==
    /\ source \in [Callers -> {"A", "B"}]
    /\ \A c \in Callers \ cs : source[c] = "A"
    /\ Cardinality(cs) > 1 => \A c, d \in cs : c # d => source[c] # source[d]
    /\ target \in Contents
    /\ pc = [c \in Callers |-> IF c \in cs THEN "copy" ELSE "idle"]
    /\ attempt = [c \in Callers |-> 0]
    /\ source_hash = [c \in Callers |-> NoHash]
    /\ target_hash = [c \in Callers |-> NoHash]
    /\ result = [c \in Callers |-> "none"]
    /\ outcomes = [c \in Callers |-> <<>>]
    /\ copies = [c \in Callers |-> 0]
    /\ sleeps = [c \in Callers |-> 0]
    /\ hashes = [c \in Callers |-> 0]
    /\ target_at_return = [c \in Callers |-> "none"]

\* One caller, no other writer.
CopyInit == CopyInitFor({1})

\* Two callers, sources of different content, the same target path.
RaceInit == CopyInitFor({1, 2})

CopyNext ==
    \E c \in Callers :
        \/ CopyStep(c)
        \/ SleepStep(c)
        \/ HashSource(c)
        \/ HashTarget(c)
        \/ Compare(c)

CopyIdle ==
    /\ source = [c \in Callers |-> "A"]
    /\ target = "A"
    /\ pc = [c \in Callers |-> "idle"]
    /\ attempt = [c \in Callers |-> 0]
    /\ source_hash = [c \in Callers |-> NoHash]
    /\ target_hash = [c \in Callers |-> NoHash]
    /\ result = [c \in Callers |-> "none"]
    /\ outcomes = [c \in Callers |-> <<>>]
    /\ copies = [c \in Callers |-> 0]
    /\ sleeps = [c \in Callers |-> 0]
    /\ hashes = [c \in Callers |-> 0]
    /\ target_at_return = [c \in Callers |-> "none"]

(***************************************************************************)
(* _split_aug_path                                                         *)
(***************************************************************************)

\* Longest de-marked path drawn as an input.
MaxPathLen == 5

\* "/files": what vhost_path[6:] strips.
Marker == <<"/", "f", "i", "l", "e", "s">>

MarkerLen == Len(Marker)

PathChars == {"/", "a", "b"}

\* The disk. A node is the list of its component names below the root; the
\* root is always a directory. /a may hold a and b, /b holds nothing.
Nodes == {<< <<"a">> >>, << <<"b">> >>,
          << <<"a">>, <<"a">> >>, << <<"a">>, <<"b">> >>}

Root == <<>>

Kind(f, node) ==
    IF node = Root THEN "dir"
    ELSE IF node \in DOMAIN f THEN f[node]
    ELSE "none"

Parent(node) == SubSeq(node, 1, Len(node) - 1)

\* Every entry lies in a directory.
WellFormed(f) == \A n \in DOMAIN f : f[n] # "none" => Kind(f, Parent(n)) = "dir"

Disks == {f \in [Nodes -> {"none", "file", "dir"}] : WellFormed(f)}

\* Path resolution as stat(2) does it: every "/" is crossed from a directory
\* (so "f/" names nothing when f is a regular file), empty components are
\* skipped, a relative path starts at the working directory.
RECURSIVE Walk(_, _, _, _)
Walk(f, node, comps, i) ==
    IF i > Len(comps) THEN TRUE
    ELSE IF Len(comps) > 1 /\ Kind(f, node) # "dir" THEN FALSE
    ELSE IF comps[i] = <<>> THEN Walk(f, node, comps, i + 1)
    ELSE /\ Kind(f, node) = "dir"
         /\ Kind(f, Append(node, comps[i])) # "none"
         /\ Walk(f, Append(node, comps[i]), comps, i + 1)

\* os.path.exists(path); the empty path names nothing.
Exists(f, wd, path) ==
    /\ path # <<>>
    /\ Walk(f, IF path[1] = "/" THEN Root ELSE wd, SplitOn(path, "/"), 1)

\* "/".join(reversed(internal_path)) without the reversed().
InternalPathUnreversed(parts) == Join(parts, "/")

\* "/".join(reversed(internal_path))
InternalPathString(parts) == Join(Reversed(parts), "/")

\* The model stops following a loop that has run longer than any run that
\* ends: a run that ends removes at most one component per "/" of the path.
LoopCap == MaxPathLen + 1

\* file_path = vhost_path[6:]; internal_path = []
SplitEnter ==
    /\ split_pc = "call"
    /\ file_path' = SubSeq(vhost_path, MarkerLen + 1, Len(vhost_path))
    /\ internal_path' = <<>>
    /\ split_pc' = "loop"
    /\ UNCHANGED <<fs, cwd, vhost_path, split_result>>
    /\ UNCHANGED otherThanSplit

\* One turn of `while not os.path.exists(file_path)`.
SplitShrink ==
    /\ split_pc = "loop"
    /\ ~Exists(fs, cwd, file_path)
    /\ Len(internal_path) < LoopCap
    /\ LET parts == RPartition(file_path, "/")
       IN  /\ file_path' = parts[1]
           /\ internal_path' = Append(internal_path, parts[3])
    /\ UNCHANGED <<fs, cwd, vhost_path, split_pc, split_result>>
    /\ UNCHANGED otherThanSplit

\* The loop ends; return file_path, "/".join(reversed(internal_path)).
SplitReturn ==
    /\ split_pc = "loop"
    /\ Exists(fs, cwd, file_path)
    /\ split_result' = <<file_path, InternalPathString(internal_path)>>
    /\ split_pc' = "done"
    /\ UNCHANGED <<fs, cwd, vhost_path, file_path, internal_path>>
    /\ UNCHANGED otherThanSplit

SplitIdle ==
    /\ fs = [n \in Nodes |-> "none"]
    /\ cwd = Root
    /\ vhost_path = Marker
    /\ file_path = <<>>
    /\ internal_path = <<>>
    /\ split_pc = "idle"
    /\ split_result = <<>>

SplitInit ==
    /\ fs \in Disks
    /\ cwd \in {Root} \cup {n \in Nodes : Len(n) = 1 /\ fs[n] = "dir"}
    /\ \E p \in StringsUpTo(PathChars, MaxPathLen) : vhost_path = Marker \o p
    /\ file_path = <<>>
    /\ internal_path = <<>>
    /\ split_pc = "call"
    /\ split_result = <<>>

SplitNext ==
    \/ SplitEnter
    \/ SplitShrink
    \/ SplitReturn

(***************************************************************************)
(* parse_define_file                                                       *)
(***************************************************************************)

\* The variable's value is drawn as at most MaxPieces pieces put end to end.
MaxPieces == 6

Pieces == {<<" ">>, <<"-", "D">>, <<"-">>, <<"=">>, <<"a">>}

DashD == <<"-", "D">>

\* len(a_opts) >= i+2, with i counted from 1 here
HasArgument(a_opts, i) == Len(a_opts) >= i + 1

\* A test that also takes a bare "-D" for a define with no separator.
AttachedDefineLoose(v) == Len(v) >= 2 /\ StartsWith(v, DashD)

\* len(v) > 2 and v.startswith("-D")
AttachedDefine(v) == Len(v) > 2 /\ StartsWith(v, DashD)

\* var_parts = x.partition("="); return_vars[var_parts[0]] = var_parts[2]
SetFromParts(d, x) == DictSet(d, Partition(x, "=")[1], Partition(x, "=")[3])

\* for i, v in enumerate(a_opts): ... from position i on
RECURSIVE DefineLoop(_, _, _)
DefineLoop(a_opts, i, d) ==
    IF i > Len(a_opts) THEN d
    ELSE IF a_opts[i] = DashD /\ HasArgument(a_opts, i)
      THEN DefineLoop(a_opts, i + 1, SetFromParts(d, a_opts[i + 1]))
    ELSE IF AttachedDefine(a_opts[i])
      THEN DefineLoop(a_opts, i + 1,
                      SetFromParts(d, SubSeq(a_opts[i], 3, Len(a_opts[i]))))
    ELSE DefineLoop(a_opts, i + 1, d)

\* parse_define_file, given the value util.get_var_from_file returned
ParseDefineFile ==
    /\ define_pc = "call"
    /\ return_vars' = DefineLoop(WhitespaceSplit(define_value), 1, EmptyDict)
    /\ define_pc' = "done"
    /\ UNCHANGED define_value
    /\ UNCHANGED otherThanDefine

DefineIdle ==
    /\ define_value = <<>>
    /\ define_pc = "idle"
    /\ return_vars = EmptyDict

DefineInit ==
    /\ define_value \in {Flatten(ps) : ps \in StringsUpTo(Pieces, MaxPieces)}
    /\ define_pc = "call"
    /\ return_vars = EmptyDict

DefineNext == ParseDefineFile

(***************************************************************************)
(* parse_defines, parse_from_subprocess, _get_runtime_cfg                  *)
(***************************************************************************)

\* Longest token after "Define: " and longest stdout drawn as inputs.
MaxTokLen == 2

MaxLines == 3

TokChars == {"A", "="}

\* "DUMP_RUN_CFG"
Sentinel == <<"D", "U", "M", "P", "_", "R", "U", "N", "_", "C", "F", "G">>

\* A line of stdout: "Define: <tok>" or some other line.
DefineLine(tok) == [define |-> TRUE, tok |-> tok]

OtherLine == [define |-> FALSE, tok |-> <<>>]

Lines ==
    {DefineLine(t) : t \in StringsUpTo(TokChars, MaxTokLen) \cup {Sentinel}}
      \cup {OtherLine}

Stderrs == {"", "AH00526: Syntax error on line 1 of /etc/apache2/apache2.conf"}

\* [apachectl, "-t", "-D", "DUMP_RUN_CFG"]
DefineCmd == "apachectl -t -D DUMP_RUN_CFG"

NoError == [type |-> "none", msg |-> <<>>]

NoValue == "no value"

\* The message texts, as the fragments they are formatted from.
SpawnFailedMsg(command) ==
    <<"Error accessing loaded Apache parameters: ", command>>

MisconfiguredMsg ==
    <<"Apache is unable to check whether or not the module is loaded because Apache is misconfigured.">>

RuntimeParseMsg == <<"Error parsing Apache runtime variables">>

\* _get_runtime_cfg without the test of proc.returncode.
GetRuntimeCfgUnchecked(command, p) ==
    IF ~p.spawned
      THEN [raised |-> [type |-> "MisconfigurationError",
                        msg |-> SpawnFailedMsg(command)],
            stdout |-> NoValue,
            log |-> << [level |-> "error",
                        msg |-> <<"Error running command ", command,
                                  " for runtime parameters!">>] >>]
      ELSE [raised |-> NoError, stdout |-> p.stdout, log |-> <<>>]

\* _get_runtime_cfg: Popen + communicate, then the test of returncode
GetRuntimeCfg(command, p) ==
    IF ~p.spawned
      THEN [raised |-> [type |-> "MisconfigurationError",
                        msg |-> SpawnFailedMsg(command)],
            stdout |-> NoValue,
            log |-> << [level |-> "error",
                        msg |-> <<"Error running command ", command,
                                  " for runtime parameters!">>] >>]
      ELSE IF p.returncode # 0
        THEN [raised |-> [type |-> "MisconfigurationError",
                          msg |-> MisconfiguredMsg],
              stdout |-> NoValue,
              log |-> << [level |-> "warning",
                          msg |-> <<"Error in checking parameter list: ",
                                    p.stderr>>] >>]
        ELSE [raised |-> NoError, stdout |-> p.stdout, log |-> <<>>]

\* re.compile(r"Define: ([^ \n]*)").findall(stdout)
FindAllDefine(stdout) ==
    LET hits == SelectSeq(stdout, LAMBDA ln : ln.define)
    IN  [i \in 1..Len(hits) |-> hits[i].tok]

\* parse_from_subprocess(define_cmd, r"Define: ([^ \n]*)")
ParseFromSubprocess(command, p) ==
    LET cfg == GetRuntimeCfg(command, p)
    IN  IF cfg.raised # NoError
          THEN [raised |-> cfg.raised, matches |-> NoValue, log |-> cfg.log]
          ELSE [raised |-> NoError, matches |-> FindAllDefine(cfg.stdout),
                log |-> cfg.log]

\* A removal that drops every occurrence, not the first one only.
ListRemoveAll(seq, x) == SelectSeq(seq, LAMBDA y : y # x)

\* list.remove(x), for a list that holds x: the first occurrence goes
ListRemove(seq, x) ==
    LET k == Min({i \in 1..Len(seq) : seq[i] = x})
    IN  SubSeq(seq, 1, k - 1) \o SubSeq(seq, k + 1, Len(seq))

\* for match in matches: ... from position i on
RECURSIVE VariablesLoop(_, _, _)
VariablesLoop(matches, i, d) ==
    IF i > Len(matches)
      THEN [raised |-> NoError, variables |-> d, log |-> <<>>]
    ELSE IF Count(matches[i], "=") > 1
      THEN [raised |-> [type |-> "PluginError", msg |-> RuntimeParseMsg],
            variables |-> NoValue,
            log |-> << [level |-> "error",
                        msg |-> <<"Unexpected number of equal signs in runtime config dump.">>] >>]
    ELSE VariablesLoop(matches, i + 1, SetFromParts(d, matches[i]))

\* parse_defines(apachectl)
ParseDefines(p) ==
    LET scan == ParseFromSubprocess(DefineCmd, p)
    IN  IF scan.raised # NoError
          THEN [raised |-> scan.raised, matches |-> scan.matches,
                variables |-> NoValue, log |-> scan.log]
        ELSE IF \A i \in 1..Len(scan.matches) : scan.matches[i] # Sentinel
          THEN [raised |-> NoError, matches |-> scan.matches,
                variables |-> EmptyDict, log |-> scan.log]
        ELSE LET r == VariablesLoop(ListRemove(scan.matches, Sentinel), 1,
                                    EmptyDict)
             IN  [raised |-> r.raised, matches |-> scan.matches,
                  variables |-> r.variables, log |-> scan.log \o r.log]

CallParseDefines ==
    /\ run_pc = "call"
    /\ run_out' = ParseDefines(proc)
    /\ run_pc' = "done"
    /\ UNCHANGED proc
    /\ UNCHANGED otherThanRun

NoOutcome ==
    [raised |-> NoError, matches |-> NoValue, variables |-> NoValue,
     log |-> <<>>]

NoProcess == [spawned |-> FALSE, returncode |-> 0, stdout |-> <<>>, stderr |-> ""]

RunIdle ==
    /\ proc = NoProcess
    /\ run_pc = "idle"
    /\ run_out = NoOutcome

RunInit ==
    /\ \/ proc = NoProcess
       \/ proc \in [spawned : {TRUE}, returncode : {0, 2},
                    stdout : StringsUpTo(Lines, MaxLines), stderr : Stderrs]
    /\ run_pc = "call"
    /\ run_out = NoOutcome

RunNext == CallParseDefines

(***************************************************************************)
(* Specifications                                                          *)
(***************************************************************************)

\* Each specification runs one function; the others are not called.
CopyOnlyInit == CopyInit /\ SplitIdle /\ DefineIdle /\ RunIdle

RaceOnlyInit == RaceInit /\ SplitIdle /\ DefineIdle /\ RunIdle

SplitOnlyInit == SplitInit /\ CopyIdle /\ DefineIdle /\ RunIdle

DefineOnlyInit == DefineInit /\ CopyIdle /\ SplitIdle /\ RunIdle

RunOnlyInit == RunInit /\ CopyIdle /\ SplitIdle /\ DefineIdle

CopySpec == CopyOnlyInit /\ [][CopyNext]_vars

RaceSpec == RaceOnlyInit /\ [][CopyNext]_vars

SplitSpec == SplitOnlyInit /\ [][SplitNext]_vars

DefineSpec == DefineOnlyInit /\ [][DefineNext]_vars

RunSpec == RunOnlyInit /\ [][RunNext]_vars

(***************************************************************************)
(* Properties of safe_copy                                                 *)
(***************************************************************************)

Last(seq) == seq[Len(seq)]

Range(seq) == {seq[i] : i \in 1..Len(seq)}

\* C1: safe_copy runs at most 3 copy+verify cycles; a call in which every
\* copy step succeeded and every cycle ended in a hash mismatch or a hashing
\* I/O error (in any mix) ends with IntegrityMismatchError after exactly 3
\* copy steps, and IntegrityMismatchError is never raised after fewer.
C1_ThreeCycles ==
    \A c \in Active :
        /\ copies[c] <= 3
        /\ Len(outcomes[c]) <= 3
        /\ (Range(outcomes[c]) \subseteq {"hash-mismatch", "hash-io-error"}
              /\ Len(outcomes[c]) < 3) => pc[c] # "done"
        /\ (pc[c] = "done"
              /\ Range(outcomes[c]) \subseteq {"hash-mismatch", "hash-io-error"})
             => /\ result[c] = IntegrityMismatchError
                /\ copies[c] = 3
                /\ Len(outcomes[c]) = 3
        /\ result[c] = IntegrityMismatchError => copies[c] = 3

\* A call that failed after a mix of hash mismatches and hashing errors.
C1_Witness ==
    /\ pc[1] = "done"
    /\ result[1] = IntegrityMismatchError
    /\ Range(outcomes[1]) = {"hash-mismatch", "hash-io-error"}
    /\ copies[1] = 3

\* What a call has done by the time its copy step raised IOError in cycle n:
\* n copies, n-1 pauses, and no hashing beyond that of the n-1 earlier cycles.
CopyFailedState(c) ==
    /\ pc[c] = "done"
    /\ result[c] = CopyIOError
    /\ result[c] # IntegrityMismatchError
    /\ copies[c] = Len(outcomes[c])
    /\ sleeps[c] = Len(outcomes[c]) - 1
    /\ hashes[c] <= 2 * (Len(outcomes[c]) - 1)
    /\ \A i \in 1..(Len(outcomes[c]) - 1) :
           outcomes[c][i] \in {"hash-mismatch", "hash-io-error"}

CallerState(c) ==
    <<pc[c], attempt[c], result[c], outcomes[c], copies[c], sleeps[c],
      hashes[c], source_hash[c], target_hash[c]>>

C3_SuccessMeansEqual ==
    \A c \in Active :
        result[c] = "ok"
          => /\ Last(outcomes[c]) = "success"
             /\ source_hash[c] = FileHash(source[c])
             /\ target_hash[c] = FileHash(target_at_return[c])
             /\ source_hash[c] = target_hash[c]
             /\ hashes[c] >= 2
             /\ target_at_return[c] = source[c]
             /\ target = source[c]

\* Success in the third cycle, after a torn copy and a hashing error.
C3_Witness ==
    /\ result[1] = "ok"
    /\ Len(outcomes[1]) = 3
    /\ "hash-mismatch" \in Range(outcomes[1])
    /\ "hash-io-error" \in Range(outcomes[1])
    /\ target = source[1]

\* C10: safe_copy takes no lock on the target. With two callers on the same
\* target, no step of a caller ever waits for the other caller: whatever the
\* other is doing, a caller at its copy step can overwrite the target and a
\* caller past its hashing can return. (The race this allows is C10_Race.)
C10_NoMutualExclusion ==
    \A c \in Active :
        /\ pc[c] = "copy" => ENABLED CopyStep(c)
        /\ pc[c] = "sleep" => ENABLED SleepStep(c)
        /\ pc[c] = "hash_source" => ENABLED HashSource(c)
        /\ pc[c] = "hash_target" => ENABLED HashTarget(c)
        /\ pc[c] = "compare" => ENABLED Compare(c)

\* The race: a caller returned success, both of its hashes having been
\* computed and found equal, while the target held the other caller's
\* content at the moment of return.
C10_Race ==
    \E c, d \in Active :
        /\ c # d
        /\ result[c] = "ok"
        /\ source_hash[c] = target_hash[c]
        /\ target_at_return[c] # source[c]
        /\ target_at_return[c] = source[d]

(***************************************************************************)
(* Properties of _split_aug_path                                           *)
(***************************************************************************)

\* The tree path without its marker.
Demarked == SubSeq(vhost_path, MarkerLen + 1, Len(vhost_path))

\* The prefixes of a path: the path itself and what stands before each "/".
Prefixes(path) ==
    {path} \cup {SubSeq(path, 1, i - 1) : i \in Positions(path, "/")}

ExistingPrefixes == {q \in Prefixes(Demarked) : Exists(fs, cwd, q)}

LongestExistingPrefix ==
    CHOOSE q \in ExistingPrefixes : \A r \in ExistingPrefixes : Len(r) <= Len(q)

\* path = P + "/" + S, cut at position i
HeadAt(path, i) == SubSeq(path, 1, i - 1)

TailAt(path, i) == SubSeq(path, i + 1, Len(path))

IsRelativeSuffix(sfx) == sfx # <<>> /\ sfx[1] # "/" /\ sfx[Len(sfx)] # "/"

\* C4, as claimed: for any P that exists on disk and any relative suffix S,
\* Split(marker + P + "/" + S) returns exactly (P, S), whatever else exists.
C4_RoundTripAsClaimed ==
    split_pc = "done" =>
        \A i \in Positions(Demarked, "/") :
            (Exists(fs, cwd, HeadAt(Demarked, i))
               /\ IsRelativeSuffix(TailAt(Demarked, i)))
              => split_result = <<HeadAt(Demarked, i), TailAt(Demarked, i)>>

\* C4, amended: for any P that exists on disk and any suffix S such that no
\* prefix of P + "/" + S longer than P exists on disk, the call
\* Split(marker + P + "/" + S) returns and returns exactly (P, S).
C4_RoundTrip ==
    \A i \in Positions(Demarked, "/") :
        (Exists(fs, cwd, HeadAt(Demarked, i))
           /\ \A q \in ExistingPrefixes : Len(q) <= i - 1)
          => /\ split_pc = "done"
                  => split_result = <<HeadAt(Demarked, i), TailAt(Demarked, i)>>
             /\ split_pc = "loop" => Len(internal_path) < LoopCap - 1

\* A round trip through a suffix of two components.
C4_Witness ==
    /\ split_pc = "done"
    /\ Len(internal_path) >= 2
    /\ \E i \in Positions(Demarked, "/") :
           /\ Exists(fs, cwd, HeadAt(Demarked, i))
           /\ IsRelativeSuffix(TailAt(Demarked, i))
           /\ Positions(TailAt(Demarked, i), "/") # {}
           /\ split_result = <<HeadAt(Demarked, i), TailAt(Demarked, i)>>

\* C5: when at least one prefix of the de-marked path exists on disk, Split
\* terminates and returns as FilePath the longest prefix that exists: the
\* loop removes at most one component per "/" of the path, each turn that
\* does not end it finds a "/" to cut at, and file_path never shrinks below
\* the longest existing prefix. The loop runs without end only when no prefix exists
\* (file_path has then shrunk to the empty string, which names nothing).
C5_LongestPrefix ==
    /\ split_pc = "done" =>
          /\ ExistingPrefixes # {}
          /\ split_result[1] = LongestExistingPrefix
    /\ (split_pc \in {"call", "loop"} /\ ExistingPrefixes # {}) =>
          /\ Len(internal_path) <= Cardinality(Positions(Demarked, "/"))
          /\ Len(internal_path) < LoopCap
          /\ split_pc = "loop" =>
                /\ LongestExistingPrefix \in Prefixes(file_path)
                /\ Len(file_path) + Len(internal_path) <= Len(Demarked)
                /\ ~Exists(fs, cwd, file_path) => Positions(file_path, "/") # {}
    /\ (split_pc = "loop" /\ file_path = <<>>) => ExistingPrefixes = {}

\* A call that removed components and stopped at the longer of two existing
\* prefixes.
C5_Witness ==
    /\ split_pc = "done"
    /\ Len(internal_path) >= 1
    /\ Cardinality(ExistingPrefixes) >= 2
    /\ split_result[1] = LongestExistingPrefix

\* C9: whenever Split returns (FilePath, InternalPath), FilePath exists on
\* disk and marker + FilePath + ("/" + InternalPath if InternalPath is not
\* empty) is the original tree path.
C9_Reconstructs ==
    split_pc = "done" =>
        /\ Exists(fs, cwd, split_result[1])
        /\ Marker \o split_result[1]
             \o (IF split_result[2] # <<>>
                   THEN <<"/">> \o split_result[2] ELSE <<>>)
           = vhost_path

(***************************************************************************)
(* Properties of parse_define_file and parse_defines                       *)
(***************************************************************************)

\* NAME[=VALUE]: the part before the first "=", and the part after it (the
\* empty string when there is no "=").
NameOf(x) ==
    IF Positions(x, "=") = {} THEN x
    ELSE SubSeq(x, 1, Min(Positions(x, "=")) - 1)

ValueOf(x) ==
    IF Positions(x, "=") = {} THEN <<>>
    ELSE SubSeq(x, Min(Positions(x, "=")) + 1, Len(x))

\* The map that sends the name of each of the candidates cand[i], i in idx,
\* to the value of the last candidate of that name.
IsLastWinsMap(d, cand, idx) ==
    /\ DOMAIN d = {NameOf(cand[i]) : i \in idx}
    /\ \A n \in DOMAIN d :
           d[n] = ValueOf(cand[Max({i \in idx : NameOf(cand[i]) = n})])

DefineTokens == WhitespaceSplit(define_value)

\* What token i defines, as a list of at most one NAME[=VALUE].
DefinedBy(toks, i) ==
    IF toks[i] = DashD
      THEN (IF i < Len(toks) THEN <<toks[i + 1]>> ELSE <<>>)
    ELSE IF Len(toks[i]) > 2 /\ toks[i][1] = "-" /\ toks[i][2] = "D"
      THEN <<SubSeq(toks[i], 3, Len(toks[i]))>>
    ELSE <<>>

Defining(toks) == {i \in 1..Len(toks) : DefinedBy(toks, i) # <<>>}

\* C7: parse_define_file scans every whitespace-split token left to right;
\* a token "-D" with a following token defines NAME[=VALUE] from the
\* following token, a longer token starting with "-D" defines it from its
\* remainder, any other token (a final bare "-D" too) defines nothing; the
\* result maps each defined name to the value of the last token defining it.
C7_DefineFile ==
    define_pc = "done" =>
        LET toks == DefineTokens
            cand == [i \in Defining(toks) |-> DefinedBy(toks, i)[1]]
        IN  IsLastWinsMap(return_vars, cand, Defining(toks))

\* Two tokens define the same name with different values, and the later wins.
C7_Witness ==
    /\ define_pc = "done"
    /\ \E i, j \in Defining(DefineTokens) :
           /\ i < j
           /\ NameOf(DefinedBy(DefineTokens, i)[1])
                = NameOf(DefinedBy(DefineTokens, j)[1])
           /\ ValueOf(DefinedBy(DefineTokens, i)[1])
                # ValueOf(DefinedBy(DefineTokens, j)[1])
           /\ return_vars[NameOf(DefinedBy(DefineTokens, j)[1])]
                = ValueOf(DefinedBy(DefineTokens, j)[1])

\* The tokens of the "Define: <token>" lines of stdout, in order.
ScannedTokens ==
    LET at == {i \in 1..Len(proc.stdout) : proc.stdout[i].define}
        nth(k) == CHOOSE i \in at : Cardinality({j \in at : j <= i}) = k
    IN  [k \in 1..Cardinality(at) |-> proc.stdout[nth(k)].tok]

RemoveAt(seq, i) == SubSeq(seq, 1, i - 1) \o SubSeq(seq, i + 1, Len(seq))

ProcessSucceeded == proc.spawned /\ proc.returncode = 0

\* C6: parse_defines as a function of the scanned tokens. Without the
\* sentinel among them: the empty map, no error. Otherwise one occurrence of
\* the sentinel is removed; if a remaining token has more than one "=" the
\* call fails with AmbiguousDefineError (PluginError "Error parsing Apache
\* runtime variables"); else the result maps each remaining token's part
\* before the first "=" to the part after it, the last token of a name
\* winning.
C6_ExtractVariables ==
    (run_pc = "done" /\ ProcessSucceeded) =>
        LET toks == ScannedTokens
            at == {i \in 1..Len(toks) : toks[i] = Sentinel}
        IN  IF at = {}
              THEN run_out.raised = NoError /\ run_out.variables = EmptyDict
              ELSE \E i \in at :
                     LET rest == RemoveAt(toks, i)
                     IN  IF \E k \in 1..Len(rest) : Count(rest[k], "=") > 1
                           THEN /\ run_out.raised.type = "PluginError"
                                /\ run_out.raised.msg = RuntimeParseMsg
                                /\ run_out.variables = NoValue
                           ELSE /\ run_out.raised = NoError
                                /\ IsLastWinsMap(run_out.variables, rest,
                                                 1..Len(rest))

\* The sentinel and two tokens of one name and different values.
C6_Witness ==
    /\ run_pc = "done"
    /\ ProcessSucceeded
    /\ run_out.raised = NoError
    /\ \E i, j, k \in 1..Len(ScannedTokens) :
           /\ ScannedTokens[i] = Sentinel
           /\ j < k /\ i # j /\ i # k
           /\ NameOf(ScannedTokens[j]) = NameOf(ScannedTokens[k])
           /\ ValueOf(ScannedTokens[j]) # ValueOf(ScannedTokens[k])
           /\ run_out.variables[NameOf(ScannedTokens[k])]
                = ValueOf(ScannedTokens[k])

\* A message includes a text when the text is empty or one of the fragments
\* the message is formatted from.
Includes(msg, text) == text = "" \/ \E i \in 1..Len(msg) : msg[i] = text

ExitedNonZero == proc.spawned /\ proc.returncode # 0

====
